---- MODULE Spec2Model ----
(***************************************************************************)
(* Model of src/extrair_chaves_final.py: the extractor of 44-digit access  *)
(* keys (chaves de acesso) from the text of PDF invoices.                  *)
(*                                                                         *)
(* A text is a sequence of Unicode code points (Python str).  The regular  *)
(* expressions of the source are modelled by a backtracking matcher over   *)
(* sequences of quantified character classes, which is what every pattern  *)
(* of the source is.                                                       *)
(***************************************************************************)
EXTENDS Integers, Sequences, FiniteSets, TLC

(***************************************************************************)
(* Characters and the character classes of Python's re on str patterns.    *)
(* The classes are given on ASCII plus the ARABIC-INDIC digits             *)
(* U+0660..U+0669, which stand for the non-ASCII members of category Nd.   *)
(***************************************************************************)
IsAsciiDigit(c) == c \in 48..57

IsDigit(c) == c \in 48..57 \/ c \in 1632..1641

DigitVal(c) == IF c \in 48..57 THEN c - 48 ELSE c - 1632

IsSpace(c) == c \in 9..13 \/ c \in 28..32

IsWord(c) == IsDigit(c) \/ c \in 65..90 \/ c \in 97..122 \/ c = 95

Lower(c) == IF c \in 65..90 THEN c + 32 ELSE c

\* Length of an access key.
TamanhoChave == 44

SetOf(s) == {s[i] : i \in 1..Len(s)}

\* re.sub(r'[^0-9]', '', chave)
limpar_chave(chave) == SelectSeq(chave, IsAsciiDigit)

(***************************************************************************)
(* int(s) on a two-character slice: two decimal digits; or one digit with  *)
(* one whitespace character stripped or with a sign; anything else raises  *)
(* ValueError.                                                             *)
(***************************************************************************)
IntOk(s) ==
    \/ IsDigit(s[1]) /\ IsDigit(s[2])
    \/ IsSpace(s[1]) /\ IsDigit(s[2])
    \/ IsDigit(s[1]) /\ IsSpace(s[2])
    \/ s[1] \in {43, 45} /\ IsDigit(s[2])

IntVal(s) ==
    IF IsDigit(s[1]) /\ IsDigit(s[2]) THEN 10 * DigitVal(s[1]) + DigitVal(s[2])
    ELSE IF IsDigit(s[1]) THEN DigitVal(s[1])
    ELSE IF s[1] = 45 THEN 0 - DigitVal(s[2])
    ELSE DigitVal(s[2])

startswith50(chave) == Len(chave) >= 2 /\ chave[1] = 53 /\ chave[2] = 48

\* Mutants of modelos_validos: NF3e left out; 67 let in.
modelos_sem_66 == {55, 65, 57}

modelos_com_67 == {55, 65, 57, 66, 67}

modelos_validos == {55, 65, 57, 66}

\* Mutant of CaminhoEnergisa: more than 6 distinct digits asked for.
CaminhoEnergisaMaisDe6(chave) ==
    startswith50(chave) /\ Cardinality(SetOf(chave)) > 6

\* The path of lines 69-73.
CaminhoEnergisa(chave) ==
    startswith50(chave) /\ Cardinality(SetOf(chave)) > 5

\* Mutant of CaminhoGeral: True returned right after the date check.
CaminhoGeralRetornoCedo(chave) ==
    /\ IntOk(SubSeq(chave, 1, 2))
    /\ ~(IntVal(SubSeq(chave, 1, 2)) < 10 \/ IntVal(SubSeq(chave, 1, 2)) > 53)
    /\ IntOk(SubSeq(chave, 3, 4))
    /\ IntOk(SubSeq(chave, 5, 6))
    /\ ~(IntVal(SubSeq(chave, 5, 6)) < 1 \/ IntVal(SubSeq(chave, 5, 6)) > 12)

\* The path of lines 76-107; a ValueError of int() is a rejection.
CaminhoGeral(chave) ==
    LET ufs == SubSeq(chave, 1, 2)
        anos == SubSeq(chave, 3, 4)
        mess == SubSeq(chave, 5, 6)
        cnpj == SubSeq(chave, 7, 20)
        mods == SubSeq(chave, 21, 22)
    IN  /\ IntOk(ufs)
        /\ ~(IntVal(ufs) < 10 \/ IntVal(ufs) > 53)
        /\ IntOk(anos)
        /\ IntOk(mess)
        /\ ~(IntVal(mess) < 1 \/ IntVal(mess) > 12
             \/ IntVal(anos) < 0 \/ IntVal(anos) > 99)
        /\ ~(Cardinality(SetOf(cnpj)) <= 2)
        /\ IntOk(mods)
        /\ IntVal(mods) \in modelos_validos
        /\ ~(Cardinality(SetOf(chave)) <= 5)

validar_chave_nfe(chave) ==
    IF Len(chave) # TamanhoChave THEN FALSE
    ELSE IF CaminhoEnergisa(chave) THEN TRUE
    ELSE CaminhoGeral(chave)

(***************************************************************************)
(* Regular expressions.  A pattern is a sequence of atoms, each a          *)
(* character class with a greedy quantifier {lo,hi} (hi = -1: unbounded)   *)
(* or the assertion \b, and the atom ranges of its capture groups.         *)
(***************************************************************************)
Atomo(cls, lo, hi) == [cls |-> cls, ch |-> 0, lo |-> lo, hi |-> hi]

Lit(c) == [cls |-> "lit", ch |-> c, lo |-> 1, hi |-> 1]

Borda == [cls |-> "b", ch |-> 0, lo |-> 0, hi |-> 0]

Literal(s) == [i \in 1..Len(s) |-> Lit(s[i])]

ClassMatch(a, c, icase) ==
    CASE a.cls = "d" -> IsDigit(c)
      [] a.cls = "s" -> IsSpace(c)
      [] a.cls = "sep" -> c = 46 \/ IsSpace(c) \/ c = 45
      [] a.cls = "nl" -> c = 10
      [] a.cls = "colon" -> c = 58
      [] a.cls = "lit" -> IF icase THEN Lower(c) = Lower(a.ch) ELSE c = a.ch
      [] OTHER -> FALSE

\* \b at pos: exactly one of the characters before and at pos is a word character.
IsBoundary(text, pos) ==
    LET antes == pos > 1 /\ IsWord(text[pos - 1])
        depois == pos <= Len(text) /\ IsWord(text[pos])
    IN  antes # depois

Maior(S) == CHOOSE x \in S : \A y \in S : x >= y

\* How many characters from pos on are in the class of atom a, at most max.
RECURSIVE RunLen(_, _, _, _, _)
RunLen(a, icase, text, pos, max) ==
    IF max = 0 \/ pos > Len(text) \/ ~ClassMatch(a, text[pos], icase) THEN 0
    ELSE 1 + RunLen(a, icase, text, pos + 1, max - 1)

N(p) == Len(p.atoms)

\* The positions atom k can end at when it starts at position q.
Avanca(p, text, k, q) ==
    IF p.atoms[k].cls = "b"
    THEN IF IsBoundary(text, q) THEN {q} ELSE {}
    ELSE {q + c : c \in p.atoms[k].lo..
             RunLen(p.atoms[k], p.icase, text, q,
                    IF p.atoms[k].hi < 0 THEN Len(text) ELSE p.atoms[k].hi)}

\* Rs[k]: the positions before atom k that atoms 1..k-1 can reach from some start.
RECURSIVE Alcance(_, _, _, _)
Alcance(p, text, k, Rs) ==
    IF k > N(p) THEN Rs
    ELSE CHOOSE r \in {Alcance(p, text, k + 1, nv) :
                         nv \in {Append(Rs, UNION {Avanca(p, text, k, q) : q \in Rs[k]})}} : TRUE

\* Fs[1] is the set of the positions of Rs[k] from which atoms k..N(p) match, when
\* Fs[2] is that set for k + 1; the result has it for every k in 1..N(p)+1.
RECURSIVE Viaveis(_, _, _, _, _)
Viaveis(p, text, k, Rs, Fs) ==
    IF k = 0 THEN Fs
    ELSE CHOOSE r \in {Viaveis(p, text, k - 1, Rs, nv) :
                         nv \in {<<{q \in Rs[k] : Avanca(p, text, k, q) \cap Fs[1] # {}}>> \o Fs}} : TRUE

Tabela(p, text) ==
    CHOOSE r \in {Viaveis(p, text, N(p), Rs, <<Rs[N(p) + 1]>>) :
                    Rs \in {Alcance(p, text, 1, <<1..(Len(text) + 1)>>)}} : TRUE

(***************************************************************************)
(* Caminho: the positions before each atom and after the last one of the   *)
(* match the backtracking search finds first from r[1]: each atom takes    *)
(* the largest repetition count with which the rest of the pattern still   *)
(* matches.                                                                *)
(***************************************************************************)
RECURSIVE Caminho(_, _, _, _, _)
Caminho(p, text, k, Fs, r) ==
    IF k > N(p) THEN r
    ELSE CHOOSE x \in {Caminho(p, text, k + 1, Fs, nv) :
                         nv \in {Append(r, Maior(Avanca(p, text, k, r[k]) \cap Fs[k + 1]))}} : TRUE

\* The strings of the capture groups of a match with positions r.
Grupos(p, text, r) ==
    [g \in 1..Len(p.grupos) |->
        SubSeq(text, r[p.grupos[g][1]], r[p.grupos[g][2] + 1] - 1)]

Menor(S) == CHOOSE x \in S : \A y \in S : x <= y

\* re.findall: the non-overlapping matches, leftmost first.
RECURSIVE FindAllFrom(_, _, _, _)
FindAllFrom(p, text, Fs, pos) ==
    IF {q \in Fs[1] : q >= pos} = {} THEN {}
    ELSE CHOOSE x \in {{Grupos(p, text, r)}
                         \cup FindAllFrom(p, text, Fs,
                                 IF r[N(p) + 1] > r[1] THEN r[N(p) + 1] ELSE r[1] + 1) :
                       r \in {Caminho(p, text, 1, Fs, <<Menor({q \in Fs[1] : q >= pos})>>)}} : TRUE

findall(p, text) ==
    CHOOSE x \in {FindAllFrom(p, text, Fs, 1) : Fs \in {Tabela(p, text)}} : TRUE

G4 == Atomo("d", 4, 4)

Esp == Atomo("s", 1, -1)

EspOpc == Atomo("s", 0, -1)

RECURSIVE Vezes(_, _)
Vezes(s, n) == IF n = 0 THEN <<>> ELSE s \o Vezes(s, n - 1)

\* \d{4}\s+ ... \d{4}: ten groups of four digits, nineteen atoms.
DezGrupos == Vezes(<<G4, Esp>>, 9) \o <<G4>>

PADRAO_CHAVE_NFE ==
    [atoms |-> <<Borda, Atomo("d", TamanhoChave, TamanhoChave), Borda>>,
     grupos |-> <<<<1, 3>>>>, icase |-> FALSE]

PADRAO_CHAVE_ESPACOS ==
    [atoms |-> <<Borda>> \o Vezes(<<G4, Esp>>, 10) \o <<Atomo("d", 0, 4), Borda>>,
     grupos |-> <<<<2, 22>>>>, icase |-> FALSE]

PADRAO_CHAVE_BLOCOS ==
    [atoms |-> <<Borda>> \o Vezes(<<G4, Atomo("sep", 0, -1)>>, 10) \o <<G4, Borda>>,
     grupos |-> <<<<2, 22>>>>, icase |-> FALSE]

\* "chave", "de", "acesso"
PADRAO_ENERGISA_1 ==
    [atoms |-> Literal(<<99, 104, 97, 118, 101>>) \o <<Esp>>
               \o Literal(<<100, 101>>) \o <<Esp>>
               \o Literal(<<97, 99, 101, 115, 115, 111>>)
               \o <<EspOpc, Atomo("colon", 0, 1), EspOpc, Atomo("nl", 0, 1), EspOpc>>
               \o DezGrupos
               \o <<EspOpc, Atomo("nl", 1, 1), EspOpc, G4>>,
     grupos |-> <<<<21, 39>>, <<43, 43>>>>, icase |-> TRUE]

PADRAO_ENERGISA_2 ==
    [atoms |-> <<Borda>> \o DezGrupos
               \o <<EspOpc, Atomo("nl", 1, 1), EspOpc, G4, Borda>>,
     grupos |-> <<<<2, 20>>, <<24, 24>>>>, icase |-> FALSE]

PADRAO_DCELT ==
    [atoms |-> <<Borda>> \o Vezes(<<G4, Esp>>, 10) \o <<G4, Borda>>,
     grupos |-> <<<<2, 22>>>>, icase |-> FALSE]

\* r'\b\d{8,}\b'
PADRAO_SEQUENCIAS ==
    [atoms |-> <<Borda, Atomo("d", 8, -1), Borda>>,
     grupos |-> <<<<1, 3>>>>, icase |-> FALSE]

\* Mutants of Janelas: range(len(seq) - 44); range(1, len(seq) - 43).
JanelasSemUltima(seq) ==
    IF Len(seq) >= TamanhoChave
    THEN {SubSeq(seq, i, i + TamanhoChave - 1) : i \in 1..(Len(seq) - TamanhoChave)}
    ELSE {}

JanelasSemPrimeira(seq) ==
    IF Len(seq) >= TamanhoChave
    THEN {SubSeq(seq, i, i + TamanhoChave - 1) : i \in 2..(Len(seq) - TamanhoChave + 1)}
    ELSE {}

\* Lines 187-191: every 44-character window of the sequences of 44 or more.
Janelas(seq) ==
    IF Len(seq) >= TamanhoChave
    THEN {SubSeq(seq, i, i + TamanhoChave - 1) : i \in 1..(Len(seq) - TamanhoChave + 1)}
    ELSE {}

\* Lines 147-191: the candidates of the six patterns and of the sliding window.
Candidatos(texto) ==
    {m[1] : m \in findall(PADRAO_CHAVE_NFE, texto)}
    \cup {limpar_chave(m[1]) : m \in findall(PADRAO_CHAVE_ESPACOS, texto)}
    \cup {limpar_chave(m[1]) : m \in findall(PADRAO_CHAVE_BLOCOS, texto)}
    \cup {c \in {limpar_chave(m[1] \o m[2]) : m \in findall(PADRAO_ENERGISA_1, texto)} :
             Len(c) = TamanhoChave}
    \cup {c \in {limpar_chave(m[1] \o m[2]) : m \in findall(PADRAO_ENERGISA_2, texto)} :
             Len(c) = TamanhoChave}
    \cup {c \in {limpar_chave(m[1]) : m \in findall(PADRAO_DCELT, texto)} :
             Len(c) = TamanhoChave}
    \cup UNION {Janelas(m[1]) : m \in findall(PADRAO_SEQUENCIAS, texto)}

\* Lines 193-196.
Validos(candidatos) ==
    {c \in candidatos : Len(c) = TamanhoChave /\ validar_chave_nfe(c)}

\* The set that line 198 turns into a list.
encontrar_chaves_acesso(texto) == Validos(Candidatos(texto))

(***************************************************************************)
(* Construction of input keys.                                             *)
(***************************************************************************)
Dig(s) == [i \in 1..Len(s) |-> 48 + s[i]]

Dois(n) == <<48 + (n \div 10), 48 + (n % 10)>>

Rep(c, n) == [i \in 1..n |-> c]

\* The digits d, d+1, d+2, ... (mod 10), n of them.
Ciclo(d, n) == [i \in 1..n |-> 48 + ((d + i - 1) % 10)]

MkChave(uf, ano, mes, cnpj, modelo, resto) ==
    Dois(uf) \o Dois(ano) \o Dois(mes) \o cnpj \o Dois(modelo) \o resto

\* list(chaves): the elements of the set, each once, in an order Python leaves open.
Listas(S) ==
    {l \in [1..Cardinality(S) -> S] : \A i, j \in 1..Cardinality(S) : l[i] = l[j] => i = j}

VARIABLES chave, aceita, fase, texto, candidatos, chaves, faseS,
          pc, pasta_existe, listagem, arquivos_pdf, idx, pagina, falhas_extracao,
          resultados, arquivos_processados, arquivos_com_chave, copias, historico,
          relatorio, relatorio_estado

varsV == <<chave, aceita, fase>>

varsS == <<texto, candidatos, chaves, faseS>>

varsB == <<pc, pasta_existe, listagem, arquivos_pdf, idx, pagina, falhas_extracao,
           resultados, arquivos_processados, arquivos_com_chave, copias, historico,
           relatorio, relatorio_estado>>

vars == <<varsV, varsS, varsB>>

(***************************************************************************)
(* validar_chave_nfe applied to one key.                                   *)
(***************************************************************************)
UFs == {0, 9, 10, 35, 50, 53, 54, 99}
Anos == {0, 25, 99}
Meses == {0, 1, 5, 12, 13}
Cnpjs == {Rep(50, 14), Rep(50, 7) \o Rep(51, 7),
          Dig(<<2, 3, 5, 2, 3, 5, 2, 3, 5, 2, 3, 5, 2, 3>>), Ciclo(1, 14)}
Modelos == {0, 55, 56, 57, 65, 66, 67}
Restos == {Rep(53, 22), Ciclo(0, 22)}

Repetidas == {Rep(48 + d, TamanhoChave) : d \in 0..9}

EntradasValidar ==
    {MkChave(uf, ano, mes, cnpj, m, r) :
        uf \in UFs, ano \in Anos, mes \in Meses, cnpj \in Cnpjs,
        m \in Modelos, r \in Restos}
    \cup Repetidas
    \cup {Ciclo(5, 43), Ciclo(5, 45), <<>>}

ParadoV == chave = <<>> /\ aceita = FALSE /\ fase = "parado"

ParadoS == texto = <<>> /\ candidatos = {} /\ chaves = <<>> /\ faseS = "parado"

ParadoB ==
    /\ pc = "parado" /\ pasta_existe = FALSE /\ listagem = <<>> /\ arquivos_pdf = <<>>
    /\ idx = 0 /\ pagina = 0 /\ falhas_extracao = 0 /\ resultados = <<>>
    /\ arquivos_processados = 0 /\ arquivos_com_chave = 0 /\ copias = {}
    /\ historico = <<>> /\ relatorio = <<>> /\ relatorio_estado = "nao"

InitV ==
    /\ chave \in EntradasValidar
    /\ aceita = FALSE
    /\ fase = "entrada"
    /\ ParadoS
    /\ ParadoB

Validar ==
    /\ fase = "entrada"
    /\ aceita' = validar_chave_nfe(chave)
    /\ fase' = "validada"
    /\ UNCHANGED <<chave, varsS, varsB>>

NextV == Validar

SpecValidar == InitV /\ [][NextV]_vars

(***************************************************************************)
(* encontrar_chaves_acesso applied to one text: a body (a key or a digit   *)
(* run in one of the layouts of the patterns) between two contexts.        *)
(***************************************************************************)
MaxPad == 1

MaxExtra == 6

\* 35 2508 12345678012345 55 0123456789012345678901
ChaveValida == MkChave(35, 25, 8, Dig(<<1, 2, 3, 4, 5, 6, 7, 8, 0, 1, 2, 3, 4, 5>>), 55, Ciclo(0, 22))

\* UF 35, month 05, three distinct digits in the CNPJ, model 55, four distinct digits in all.
ChavePoucosDigitos ==
    MkChave(35, 25, 5, Dig(<<2, 3, 5, 2, 3, 5, 2, 3, 5, 2, 3, 5, 2, 3>>), 55, Rep(53, 22))

\* Prefix 50, model 00.
ChaveEnergisa == MkChave(50, 25, 13, Ciclo(1, 14), 0, Ciclo(0, 22))

\* The digits of the labeled scenario: 3525 0812 3456 7801 2345 6789 0123 4567 8901 2345 6789
ChaveRotulada ==
    Dig(<<3, 5, 2, 5, 0, 8, 1, 2, 3, 4, 5, 6, 7, 8, 0, 1, 2, 3, 4, 5, 6, 7, 8, 9,
          0, 1, 2, 3, 4, 5, 6, 7, 8, 9, 0, 1, 2, 3, 4, 5, 6, 7, 8, 9>>)

Arabe(s) == [i \in 1..Len(s) |-> s[i] - 48 + 1632]

\* The groups of four of a key, the first n joined by sep and the last by ult.
RECURSIVE Agrupar(_, _, _, _)
Agrupar(k, g, sep, ult) ==
    IF g = 11 THEN SubSeq(k, 41, 44)
    ELSE SubSeq(k, 4 * g - 3, 4 * g) \o (IF g = 10 THEN ult ELSE sep) \o Agrupar(k, g + 1, sep, ult)

\* "Chave de acesso: "
Rotulo == <<67, 104, 97, 118, 101, 32, 100, 101, 32, 97, 99, 101, 115, 115, 111, 58, 32>>

TextoRotulado == Rotulo \o Agrupar(ChaveRotulada, 1, <<32>>, <<10>>)

Corpos ==
    {ChaveValida, ChavePoucosDigitos, ChaveEnergisa, Arabe(ChaveValida),
     Agrupar(ChaveValida, 1, <<32>>, <<32>>),
     Agrupar(ChaveValida, 1, <<32>>, <<10>>),
     Agrupar(ChaveValida, 1, <<46>>, <<45>>),
     Rotulo \o Agrupar(ChaveValida, 1, <<32>>, <<10>>),
     TextoRotulado,
     Rep(49, TamanhoChave), Rep(49, TamanhoChave + MaxExtra)}
    \cup {Ciclo(1, TamanhoChave + e) : e \in {1, MaxExtra}}

\* space, line break, a, _, ., -, :, 1, ARABIC-INDIC DIGIT ONE
CharsContexto == {32, 10, 97, 95, 46, 45, 58, 49, 1633}

Contextos == {Rep(c, n) : c \in CharsContexto, n \in 0..MaxPad}

Textos == {pre \o corpo \o pos : pre \in Contextos, corpo \in Corpos, pos \in Contextos}

InitS ==
    /\ texto \in Textos
    /\ candidatos = {}
    /\ chaves = <<>>
    /\ faseS = "texto"
    /\ ParadoV
    /\ ParadoB

Varrer ==
    /\ faseS = "texto"
    /\ candidatos' = Candidatos(texto)
    /\ \E lista \in Listas(Validos(Candidatos(texto))) : chaves' = lista
    /\ faseS' = "varrido"
    /\ UNCHANGED <<texto, varsV, varsB>>

NextS == Varrer

SpecVarredura == InitS /\ [][NextS]_vars

(***************************************************************************)
(* processar_arquivos: the batch over the PDFs of a folder.  A file name   *)
(* is a string; a file has one page of text, which each of the two         *)
(* extraction libraries either returns or fails on.                        *)
(***************************************************************************)
MaxArquivos == 3

\* ".pdf", ".txt", ".PDF"
Extensoes == <<<<46, 112, 100, 102>>, <<46, 116, 120, 116>>, <<46, 80, 68, 70>>>>

\* "1.pdf", "2.txt", "3.PDF", "4.pdf", ...
NomeArquivo(i) == <<48 + i>> \o Extensoes[((i - 1) % 3) + 1]

Listagens == {[i \in 1..n |-> NomeArquivo(i)] : n \in 0..MaxArquivos}

DuasChaves == ChaveValida \o <<32>> \o ChaveEnergisa

\* The page texts of the files.
Paginas == <<TextoRotulado, ChaveValida, DuasChaves, Rep(49, TamanhoChave)>>

\* 'NENHUMA CHAVE ENCONTRADA'
Sentinela == <<78, 69, 78, 72, 85, 77, 65, 32, 67, 72, 65, 86, 69, 32,
               69, 78, 67, 79, 78, 84, 82, 65, 68, 65>>

endswith(s, suf) ==
    Len(s) >= Len(suf) /\ SubSeq(s, Len(s) - Len(suf) + 1, Len(s)) = suf

lower(s) == [i \in 1..Len(s) |-> Lower(s[i])]

\* Line 223: f.lower().endswith(('.pdf', '.PDF'))
EhPdf(f) == endswith(lower(f), Extensoes[1]) \/ endswith(lower(f), Extensoes[3])

\* Lines 222-223.
ListarPdfs(nomes) == SelectSeq(nomes, EhPdf)

\* Lines 109-143: the text of the page and a line break from each library
\* that did not fail.
extrair_texto_pdf(pag, ok1, ok2) ==
    (IF ok1 THEN pag \o <<10>> ELSE <<>>) \o (IF ok2 THEN pag \o <<10>> ELSE <<>>)

\* resultados[arquivo] = chaves on a dict kept as the sequence of its items.
DictSet(d, k, v) ==
    IF \E i \in 1..Len(d) : d[i].arquivo = k
    THEN [i \in 1..Len(d) |-> IF d[i].arquivo = k THEN [arquivo |-> k, chaves |-> v] ELSE d[i]]
    ELSE Append(d, [arquivo |-> k, chaves |-> v])

\* Mutant of Destino: every file goes to the has-key folder.
DestinoSempreComChave(cs) == "PDFs_Com_Chave"

\* Lines 248-255: the folder the file is copied to.
Destino(cs) == IF cs # <<>> THEN "PDFs_Com_Chave" ELSE "PDFs_Sem_Chave"

\* Lines 248-250.
ContarComChave(n, cs) == IF cs # <<>> THEN n + 1 ELSE n

RegistrarResultado(d, arquivo, cs) == IF cs # <<>> THEN DictSet(d, arquivo, cs) ELSE d

\* Mutant of AposExcecao: no handler, the exception ends processar_arquivos.
ExcecaoPropagada == "fim"

\* Lines 260-262: the exception is printed and the loop goes on with the next file.
AposExcecao == "laco"

\* Lines 291-296: the rows of one item of resultados.
LinhasDe(item) ==
    [i \in 1..Len(item.chaves) |-> [nome_arquivo |-> item.arquivo, chave |-> item.chaves[i]]]
    \o (IF item.chaves = <<>>
        THEN <<[nome_arquivo |-> item.arquivo, chave |-> Sentinela]>>
        ELSE <<>>)

\* Lines 275-296: the rows of the report (the fields taken from the file name left out).
RECURSIVE Linhas(_, _)
Linhas(d, i) == IF i > Len(d) THEN <<>> ELSE LinhasDe(d[i]) \o Linhas(d, i + 1)

InitB ==
    /\ pc = "inicio"
    /\ pasta_existe \in BOOLEAN
    /\ listagem \in Listagens
    /\ arquivos_pdf = <<>>
    /\ idx = 0
    /\ pagina = 0
    /\ falhas_extracao = 0
    /\ resultados = <<>>
    /\ arquivos_processados = 0
    /\ arquivos_com_chave = 0
    /\ copias = {}
    /\ historico = <<>>
    /\ relatorio = <<>>
    /\ relatorio_estado = "nao"
    /\ ParadoV
    /\ ParadoS

\* Lines 208-229.
Iniciar ==
    /\ pc = "inicio"
    /\ IF ~pasta_existe
       THEN pc' = "fim" /\ UNCHANGED <<arquivos_pdf, idx>>
       ELSE /\ arquivos_pdf' = ListarPdfs(listagem)
            /\ IF ListarPdfs(listagem) = <<>>
               THEN pc' = "fim" /\ UNCHANGED idx
               ELSE pc' = "laco" /\ idx' = 1
    /\ UNCHANGED <<pasta_existe, listagem, pagina, falhas_extracao, resultados,
                   arquivos_processados, arquivos_com_chave, copias, historico,
                   relatorio, relatorio_estado, varsV, varsS>>

\* Lines 232-262: one turn of the loop.
ProcessarArquivo ==
    /\ pc = "laco"
    /\ idx <= Len(arquivos_pdf)
    /\ \E pag \in 1..Len(Paginas), ok1 \in BOOLEAN, ok2 \in BOOLEAN :
          \E arquivo \in {arquivos_pdf[idx]},
             texto_completo \in {extrair_texto_pdf(Paginas[pag], ok1, ok2)} :
             \E cs \in Listas(encontrar_chaves_acesso(texto_completo)), copia_ok \in BOOLEAN :
                 /\ pagina' = pag
                 /\ falhas_extracao' = (IF ok1 THEN 0 ELSE 1) + (IF ok2 THEN 0 ELSE 1)
                 /\ arquivos_processados' = arquivos_processados + 1
                 /\ arquivos_com_chave' = ContarComChave(arquivos_com_chave, cs)
                 /\ resultados' = RegistrarResultado(resultados, arquivo, cs)
                 /\ IF copia_ok
                    THEN /\ copias' = copias \cup {[arquivo |-> arquivo, pasta |-> Destino(cs)]}
                         /\ pc' = "laco"
                    ELSE /\ copias' = copias
                         /\ pc' = AposExcecao
                 /\ historico' = Append(historico,
                        [arquivo |-> arquivo, chaves |-> cs, excecao |-> ~copia_ok])
    /\ idx' = idx + 1
    /\ UNCHANGED <<pasta_existe, listagem, arquivos_pdf, relatorio, relatorio_estado,
                   varsV, varsS>>

\* Lines 264-305: the report; a failure of the write leaves a part of it.
SalvarResultados ==
    /\ pc = "laco"
    /\ idx > Len(arquivos_pdf)
    /\ \/ /\ relatorio' = Linhas(resultados, 1)
          /\ relatorio_estado' = "ok"
       \/ /\ \E n \in 0..Len(Linhas(resultados, 1)) :
                relatorio' = SubSeq(Linhas(resultados, 1), 1, n)
          /\ relatorio_estado' = "falha"
    /\ pc' = "fim"
    /\ UNCHANGED <<pasta_existe, listagem, arquivos_pdf, idx, pagina, falhas_extracao,
                   resultados, arquivos_processados, arquivos_com_chave, copias,
                   historico, varsV, varsS>>

Next == Iniciar \/ ProcessarArquivo \/ SalvarResultados

Spec == InitB /\ [][Next]_vars

(***************************************************************************)
(* Properties.  The predicates below state the claims on code points and   *)
(* decimal values directly, apart from the operators above.                *)
(***************************************************************************)
SoAscii(k) == \A c \in 1..Len(k) : k[c] \in 48..57

Distintos(k) == Cardinality({k[c] : c \in 1..Len(k)})

\* The two-digit number at positions i, i+1 (from 1) of a string of ASCII digits.
N2(k, i) == 10 * (k[i] - 48) + (k[i + 1] - 48)

Comeca50(k) == k[1] = 53 /\ k[2] = 48

CondicoesGerais(k) ==
    /\ N2(k, 1) >= 10 /\ N2(k, 1) <= 53
    /\ N2(k, 5) >= 1 /\ N2(k, 5) <= 12
    /\ Cardinality({k[c] : c \in 7..20}) > 2
    /\ N2(k, 21) \in {55, 65, 57, 66}
    /\ Distintos(k) > 5

Chave44(k) == Len(k) = 44 /\ SoAscii(k)

\* C4: validar_chave_nfe accepts every 44-digit string that starts with "50" and
\* has at least 6 distinct digits, whatever its month, CNPJ field and model are,
\* and accepts whenever the 50-prefix path or the general path accepts.
C4_Prefixo50Aceito ==
    (fase = "validada" /\ Chave44(chave))
        => (((Comeca50(chave) /\ Distintos(chave) >= 6) \/ CondicoesGerais(chave)) => aceita)

C4_Witness ==
    /\ fase = "validada" /\ Chave44(chave) /\ aceita
    /\ Comeca50(chave) /\ Distintos(chave) = 6
    /\ N2(chave, 21) \notin {55, 65, 57, 66}

\* C5: validar_chave_nfe rejects every 44-digit string made of one repeated digit.
C5_RepetidaRejeitada ==
    (fase = "validada" /\ Chave44(chave) /\ Distintos(chave) = 1) => ~aceita

C5_Witness ==
    /\ fase = "validada" /\ Chave44(chave) /\ Distintos(chave) = 1
    /\ chave[1] = 51 /\ ~aceita

\* C9: a 44-digit string that does not start with "50" is accepted if and only if
\* its UF is in [10, 53], its month in [1, 12], its CNPJ field has more than 2
\* distinct digits, its model is one of 55, 65, 57, 66 and it has more than 5
\* distinct digits.
C9_CaminhoGeralExato ==
    (fase = "validada" /\ Chave44(chave) /\ ~Comeca50(chave))
        => (aceita <=> CondicoesGerais(chave))

C9_Witness ==
    /\ fase = "validada" /\ Chave44(chave) /\ ~Comeca50(chave)
    /\ aceita /\ N2(chave, 1) = 53 /\ N2(chave, 3) = 99 /\ N2(chave, 5) = 12
    /\ N2(chave, 21) = 66

\* The maximal runs of consecutive digits (\d) of a text, as <<first, last>>.
CorridasDeDigitos(t) ==
    LET ini == {i \in 1..Len(t) : IsDigit(t[i]) /\ (i = 1 \/ ~IsDigit(t[i - 1]))}
        fim == {j \in 1..Len(t) : IsDigit(t[j]) /\ (j = Len(t) \/ ~IsDigit(t[j + 1]))}
    IN  {r \in ini \X fim : r[1] <= r[2] /\ \A c \in r[1]..r[2] : IsDigit(t[c])}

\* Neither neighbour of the run is a letter, a digit or an underscore.
Delimitada(t, r) ==
    /\ r[1] = 1 \/ ~IsWord(t[r[1] - 1])
    /\ r[2] = Len(t) \/ ~IsWord(t[r[2] + 1])

Subcadeias44(t, r) == {SubSeq(t, a, a + 43) : a \in r[1]..(r[2] - 43)}

Com44(S) == {c \in S : Len(c) = 44}

ListaComo(l) == {l[i] : i \in 1..Len(l)}

\* UF 35, month 01-12, more than 2 distinct digits in positions 6-19, model 55.
ChaveDoC3(k) ==
    /\ SoAscii(k)
    /\ N2(k, 1) = 35
    /\ N2(k, 5) >= 1 /\ N2(k, 5) <= 12
    /\ Cardinality({k[c] : c \in 7..20}) > 2
    /\ N2(k, 21) = 55

\* C1: every element of the list encontrar_chaves_acesso returns is a string of
\* exactly 44 ASCII decimal digits that validar_chave_nfe accepts, and no key
\* appears more than once.
C1_ChavesAsciiValidas ==
    faseS = "varrido"
        => /\ \A i \in 1..Len(chaves) :
                Len(chaves[i]) = 44 /\ SoAscii(chaves[i]) /\ validar_chave_nfe(chaves[i])
           /\ \A i, j \in 1..Len(chaves) : chaves[i] = chaves[j] => i = j

\* C3 as stated: a contiguous 44-digit key with UF 35, a valid month, a
\* non-degenerate CNPJ field and model 55 is a candidate and is returned,
\* whatever characters surround it.
C3_Original ==
    faseS = "varrido"
        => \A a \in 1..(Len(texto) - 43) :
              ChaveDoC3(SubSeq(texto, a, a + 43))
                  => /\ SubSeq(texto, a, a + 43) \in candidatos
                     /\ SubSeq(texto, a, a + 43) \in ListaComo(chaves)

\* C3 amended: such a key that also has more than 5 distinct digits, in a run of
\* digits not adjacent to a letter or an underscore, is a candidate and is
\* returned.
C3_ChaveDelimitadaEncontrada ==
    faseS = "varrido"
        => \A r \in CorridasDeDigitos(texto) :
              Delimitada(texto, r)
                  => \A k \in Subcadeias44(texto, r) :
                        (ChaveDoC3(k) /\ Distintos(k) > 5)
                            => k \in candidatos /\ k \in ListaComo(chaves)

C3_Witness ==
    /\ faseS = "varrido"
    /\ \E r \in CorridasDeDigitos(texto) :
          /\ Delimitada(texto, r)
          /\ r[1] > 1 /\ r[2] - r[1] + 1 > 44
          /\ \E k \in Subcadeias44(texto, r) :
                ChaveDoC3(k) /\ Distintos(k) > 5 /\ k \in ListaComo(chaves)

\* C7 as stated: every maximal run of n >= 44 digits anywhere in the text gives
\* every 44-digit substring as a candidate, and a run of 50 gives exactly 7
\* distinct ones.
C7_Original ==
    faseS = "varrido"
        => \A r \in CorridasDeDigitos(texto) :
              r[2] - r[1] + 1 >= 44
                  => /\ Subcadeias44(texto, r) \subseteq candidatos
                     /\ r[2] - r[1] + 1 = 50
                            => Cardinality(Subcadeias44(texto, r) \cap candidatos) = 7

\* C7 amended: every maximal run of n >= 44 digits that is not adjacent to a
\* letter or an underscore gives every 44-digit substring as a candidate; when
\* the text has no other digit the candidates of length 44 are exactly these
\* substrings, n - 43 of them (7 for n = 50) when they are pairwise different.
C7_JanelasDeCorridaDelimitada ==
    faseS = "varrido"
        => \A r \in CorridasDeDigitos(texto) :
              (r[2] - r[1] + 1 >= 44 /\ Delimitada(texto, r))
                  => /\ Subcadeias44(texto, r) \subseteq candidatos
                     /\ CorridasDeDigitos(texto) = {r}
                            => /\ Com44(candidatos) = Subcadeias44(texto, r)
                               /\ (\A a, b \in r[1]..(r[2] - 43) :
                                      SubSeq(texto, a, a + 43) = SubSeq(texto, b, b + 43)
                                          => a = b)
                                     => Cardinality(Com44(candidatos)) = r[2] - r[1] - 42

C7_Witness ==
    /\ faseS = "varrido"
    /\ \E r \in CorridasDeDigitos(texto) :
          /\ r[2] - r[1] + 1 = 50 /\ Delimitada(texto, r) /\ r[1] > 1
          /\ CorridasDeDigitos(texto) = {r}
          /\ Cardinality(Com44(candidatos)) = 7

\* A file name that ends in ".pdf" in any case of letters.
NomeDePdf(f) ==
    /\ Len(f) >= 4
    /\ f[Len(f) - 3] = 46
    /\ f[Len(f) - 2] \in {80, 112}
    /\ f[Len(f) - 1] \in {68, 100}
    /\ f[Len(f)] \in {70, 102}

Tentados == [i \in 1..Len(historico) |-> historico[i].arquivo]

Ultimo == historico[Len(historico)]

\* The last file handled had the labeled text on its page and a library returned it.
PaginaRotulada ==
    /\ pc \in {"laco", "fim"} /\ historico # <<>> /\ pagina # 0
    /\ Paginas[pagina] = TextoRotulado /\ falhas_extracao < 2

\* C2 as stated: for the labeled text encontrar_chaves_acesso returns exactly the
\* key made of its 44 digits, and processar_arquivos routes the document to the
\* has-key folder.
C2_Original ==
    PaginaRotulada
        => /\ encontrar_chaves_acesso(TextoRotulado) = {ChaveRotulada}
           /\ Ultimo.chaves = <<ChaveRotulada>>
           /\ ~Ultimo.excecao
                 => [arquivo |-> Ultimo.arquivo, pasta |-> "PDFs_Com_Chave"] \in copias

\* C2 amended: for the labeled text the only candidate is the string of its 44
\* digits, which has 67 in positions 20-21 and is rejected, so
\* encontrar_chaves_acesso returns no key and processar_arquivos routes the
\* document to the no-key folder.
C2_RotuladoSemChave ==
    PaginaRotulada
        => /\ Candidatos(TextoRotulado) = {ChaveRotulada}
           /\ N2(ChaveRotulada, 21) = 67
           /\ encontrar_chaves_acesso(TextoRotulado) = {}
           /\ Ultimo.chaves = <<>>
           /\ ~Ultimo.excecao
                 => {c \in copias : c.arquivo = Ultimo.arquivo}
                        = {[arquivo |-> Ultimo.arquivo, pasta |-> "PDFs_Sem_Chave"]}

C2_Witness ==
    /\ PaginaRotulada /\ pc = "fim" /\ falhas_extracao = 0
    /\ Ultimo.chaves = <<>> /\ ~Ultimo.excecao
    /\ [arquivo |-> Ultimo.arquivo, pasta |-> "PDFs_Sem_Chave"] \in copias

LinhasDoArquivo(f) == {j \in 1..Len(relatorio) : relatorio[j].nome_arquivo = f}

\* C6: in the written report every processed document that yielded no keys has
\* exactly one row, with the sentinel as its key, and every document that
\* yielded keys has one row per key.
C6_LinhaPorDocumento ==
    (pc = "fim" /\ relatorio_estado = "ok")
        => \A i \in 1..Len(historico) :
              IF historico[i].chaves = <<>>
              THEN /\ Cardinality(LinhasDoArquivo(historico[i].arquivo)) = 1
                   /\ \A j \in LinhasDoArquivo(historico[i].arquivo) :
                         relatorio[j].chave = Sentinela
              ELSE /\ Cardinality(LinhasDoArquivo(historico[i].arquivo))
                          = Len(historico[i].chaves)
                   /\ {relatorio[j].chave : j \in LinhasDoArquivo(historico[i].arquivo)}
                          = ListaComo(historico[i].chaves)

\* C8: a failure while handling one document never aborts the batch: every PDF
\* of the listing is attempted in turn and the report-writing step runs after
\* the last one.
C8_LoteNuncaAborta ==
    /\ pc = "laco"
          => /\ idx = Len(historico) + 1
             /\ Tentados = SubSeq(SelectSeq(listagem, NomeDePdf), 1, Len(historico))
    /\ (pc = "fim" /\ pasta_existe /\ SelectSeq(listagem, NomeDePdf) # <<>>)
          => /\ Tentados = SelectSeq(listagem, NomeDePdf)
             /\ relatorio_estado # "nao"

C8_Witness ==
    /\ pc = "fim" /\ relatorio_estado = "ok"
    /\ Len(historico) = 2 /\ historico[1].excecao
    /\ falhas_extracao = 2

CopiasDe(f) == {c \in copias : c.arquivo = f}

\* C10: a document handled without an exception is copied to exactly one of the
\* two folders, the has-key folder if and only if encontrar_chaves_acesso
\* returned a non-empty list; arquivos_com_chave is always the number of
\* entries of resultados and at most arquivos_processados.
C10_RoteamentoEContadores ==
    /\ arquivos_com_chave = Len(resultados)
    /\ arquivos_com_chave <= arquivos_processados
    /\ \A i \in 1..Len(historico) :
          ~historico[i].excecao
              => /\ Cardinality(CopiasDe(historico[i].arquivo)) = 1
                 /\ \A c \in CopiasDe(historico[i].arquivo) :
                       /\ c.pasta \in {"PDFs_Com_Chave", "PDFs_Sem_Chave"}
                       /\ c.pasta = "PDFs_Com_Chave" <=> historico[i].chaves # <<>>

C10_Witness ==
    /\ pc = "fim" /\ Len(historico) = 2
    /\ ~historico[1].excecao /\ ~historico[2].excecao
    /\ historico[1].chaves # <<>> /\ historico[2].chaves = <<>>
    /\ arquivos_com_chave = 1 /\ arquivos_processados = 2

====
